---- MODULE Spec2Model ----
(***************************************************************************)
(* A model of csharp_iterator/src/lib.rs: an iterator boxed twice, leaked  *)
(* behind a thin pointer, and advanced by a foreign caller through the     *)
(* extern "C" trampoline iter_impl_ffi until it reports exhaustion.        *)
(*                                                                         *)
(* The element type T is instantiated as Vec<usize> (the instantiation     *)
(* get_iterator uses): an element is a finite sequence of naturals.        *)
(***************************************************************************)
EXTENDS Integers, Sequences, FiniteSets, TLC

(* Bounds of the model *)
MaxVal == 1
MaxLen == 3
MaxCycle == 2
MaxCalls == 42
MaxStale == 2

(* `let data = 0..40;` in get_iterator *)
RangeEndShort == 40 - 1
RangeEnd == 40

VARIABLES
    pc,        \* the foreign caller: "start", "polling", "done", "abandoned", "crashed"
    cs,        \* the CSharpIteratorOut record the caller holds
    mem,       \* the heap: live cells, and the allocations and frees done so far
    slot,      \* the caller-owned destination slot, the target of data
    slot0,     \* what the slot held before the first call
    src,       \* the iterator that was given to form
    rets,      \* the values the trampoline returned, in call order
    outs,      \* the slot contents the caller collected after each true
    dropped,   \* the element values the callee destroyed, in order
    seqDrops,  \* how many times the boxed iterator was destroyed
    uaf,       \* how many calls dereferenced a pointer to freed memory
    stale      \* how many calls the caller made after a false

vars == <<pc, cs, mem, slot, slot0, src, rets, outs, dropped, seqDrops, uaf, stale>>

(* The values of the element type that the model draws inputs from *)
Values == {<<>>} \cup {<<v>> : v \in 0..MaxVal}

SeqsUpTo(S, n) == UNION {[1..k -> S] : k \in 0..n}

(* The address of a Box of a zero-sized value: dangling, never allocated *)
Dangling == 0

(***************************************************************************)
(* The iterators handed to form (D: Iterator<Item=T> + 'static).           *)
(*   finite      an owning iterator over a list of items                   *)
(*   cycle       a non-empty list repeated forever                         *)
(*   empty       zero-sized, always exhausted                              *)
(*   repeat_with zero-sized, yields T::default() forever                   *)
(*   map_range   (0..n).map(|x| (0..x).collect()), get_iterator's          *)
(***************************************************************************)
ZstKinds == {"empty", "repeat_with"}
FiniteKinds == {"finite", "empty", "map_range"}
InfiniteKinds == {"cycle", "repeat_with"}

IsZst(kind) == kind \in ZstKinds

ZstState == [pos |-> 0]

None == [some |-> FALSE, val |-> <<>>]
Some(x) == [some |-> TRUE, val |-> x]

(* (0..x).collect::<Vec<usize>>(): push start, start+1, ... while below x *)
RECURSIVE Collect(_, _)
Collect(start, x) ==
    IF start < x THEN <<start>> \o Collect(start + 1, x) ELSE <<>>

(* Range<usize>::next on [start, end) *)
RangeNext(st) ==
    IF st.start < st.end
    THEN [opt |-> Some(st.start), st |-> [st EXCEPT !.start = @ + 1]]
    ELSE [opt |-> None, st |-> st]

MapClosureInclusive(x) == Collect(0, x + 1)

(* the closure of get_iterator's map *)
MapClosure(x) == Collect(0, x)

(* Iterator::next of the boxed trait object: the option and the new state *)
IterNext(kind, st) ==
    CASE kind = "finite" ->
            IF st.pos < Len(st.items)
            THEN [opt |-> Some(st.items[st.pos + 1]), st |-> [st EXCEPT !.pos = @ + 1]]
            ELSE [opt |-> None, st |-> st]
      [] kind = "cycle" ->
            [opt |-> Some(st.items[st.pos + 1]),
             st |-> [st EXCEPT !.pos = (@ + 1) % Len(st.items)]]
      [] kind = "empty" -> [opt |-> None, st |-> st]
      [] kind = "repeat_with" -> [opt |-> Some(<<>>), st |-> st]
      [] kind = "map_range" ->
            LET r == RangeNext(st)
            IN  IF r.opt.some
                THEN [opt |-> Some(MapClosure(r.opt.val)), st |-> r.st]
                ELSE [opt |-> None, st |-> r.st]

(* Iterating an iterator directly to completion, without the wrapper *)
RECURSIVE DirectIterate(_, _)
DirectIterate(kind, st) ==
    LET r == IterNext(kind, st)
    IN  IF r.opt.some THEN <<r.opt.val>> \o DirectIterate(kind, r.st) ELSE <<>>

(***************************************************************************)
(* The heap                                                                *)
(***************************************************************************)
EmptyMem == [cells |-> <<>>, allocs |-> 0, frees |-> 0]

Live(m, a) == a \in DOMAIN m.cells

(* Box::new: a zero-sized value takes no allocation *)
BoxNew(m, zst, obj) ==
    IF zst
    THEN [mem |-> m, ptr |-> Dangling]
    ELSE LET a == m.allocs + 1
         IN  [mem |-> [cells |-> (a :> obj) @@ m.cells,
                       allocs |-> a,
                       frees |-> m.frees],
              ptr |-> a]

(* the deallocation at the end of dropping a Box *)
BoxFree(m, zst, a) ==
    IF zst
    THEN m
    ELSE [cells |-> [b \in DOMAIN m.cells \ {a} |-> m.cells[b]],
          allocs |-> m.allocs,
          frees |-> m.frees + 1]

(***************************************************************************)
(* CSharpIteratorOut::form                                                 *)
(***************************************************************************)
UninitCs == [internal_iter |-> "uninit", pointer |-> Dangling]

FormSingleBox(m, iter) ==
    LET inner == BoxNew(m, IsZst(iter.kind), iter.state)
    IN  [mem |-> inner.mem,
         cs |-> [internal_iter |-> "iter_impl_ffi", pointer |-> inner.ptr]]

FormNoLeak(m, iter) ==
    LET inner == BoxNew(m, IsZst(iter.kind), iter.state)
        fat == [data |-> inner.ptr, vtable |-> iter.kind]
        outer == BoxNew(inner.mem, FALSE, fat)
    IN  [mem |-> BoxFree(BoxFree(outer.mem, IsZst(iter.kind), inner.ptr),
                         FALSE, outer.ptr),
         cs |-> [internal_iter |-> "iter_impl_ffi", pointer |-> outer.ptr]]

(* Box::into_raw(Box::new(Box::new(iter) as _)) *)
Form(m, iter) ==
    LET inner == BoxNew(m, IsZst(iter.kind), iter.state)
        fat == [data |-> inner.ptr, vtable |-> iter.kind]
        outer == BoxNew(inner.mem, FALSE, fat)
    IN  [mem |-> outer.mem,
         cs |-> [internal_iter |-> "iter_impl_ffi", pointer |-> outer.ptr]]

(***************************************************************************)
(* iter_impl_ffi.  An outcome of one call: the heap and the slot after it, *)
(* the value returned, the element values destroyed, whether the iterator  *)
(* was destroyed, whether freed memory was used, whether the process died. *)
(***************************************************************************)
Outcome(m, s, r, d, k, u, c) ==
    [mem |-> m, slot |-> s, ret |-> r, dropped |-> d, seqDrops |-> k,
     uaf |-> u, crashed |-> c]

OnSomeNoWrite(m, s, x) == Outcome(m, s, TRUE, <<s>>, 0, 0, FALSE)

OnSomeNoDrop(m, s, x) == Outcome(m, x, TRUE, <<>>, 0, 0, FALSE)

OnSomeReturnsFalse(m, s, x) == Outcome(m, x, FALSE, <<s>>, 0, 0, FALSE)

(* Some(x) => { *data = x; true }: the assignment drops the old *data *)
OnSome(m, s, x) == Outcome(m, x, TRUE, <<s>>, 0, 0, FALSE)

OnNoneLeak(m, s, p, fat) == Outcome(m, s, FALSE, <<>>, 0, 0, FALSE)

OnNoneWritesDefault(m, s, p, fat) ==
    Outcome(BoxFree(BoxFree(m, IsZst(fat.vtable), fat.data), FALSE, p),
            <<>>, FALSE, <<s>>, 1, 0, FALSE)

(* None => { let _ = Box::from_raw(p); false }: dropping the outer box     *)
(* destroys the iterator, frees its box, then frees the outer box          *)
OnNone(m, s, p, fat) ==
    Outcome(BoxFree(BoxFree(m, IsZst(fat.vtable), fat.data), FALSE, p),
            s, FALSE, <<>>, 1, 0, FALSE)

(* A call through a pointer to freed memory: what next() on p reads is not    *)
(* defined, so the call may yield any element, may see exhaustion and free *)
(* again (the outer box, and the iterator's box if the stale fat pointer   *)
(* names a sized type), or may kill the process.                           *)
OnDangling(m, s, p) ==
    {[OnSome(m, s, x) EXCEPT !.uaf = 1] : x \in Values}
    \cup {[OnNone(m, s, p, [data |-> Dangling, vtable |-> k]) EXCEPT !.uaf = 1]
            : k \in {"empty", "finite"}}
    \cup {Outcome(m, s, FALSE, <<>>, 0, 1, TRUE)}

IterImplFfiChecked(m, s, p) ==
    IF Live(m, p)
    THEN LET fat == m.cells[p]
             st == IF IsZst(fat.vtable) THEN ZstState ELSE m.cells[fat.data]
             r == IterNext(fat.vtable, st)
             m2 == IF IsZst(fat.vtable) THEN m ELSE [m EXCEPT !.cells[fat.data] = r.st]
         IN  IF r.opt.some THEN {OnSome(m2, s, r.opt.val)} ELSE {OnNone(m, s, p, fat)}
    ELSE {Outcome(m, s, FALSE, <<>>, 0, 0, FALSE)}

IterImplFfi(m, s, p) ==
    IF Live(m, p)
    THEN LET fat == m.cells[p]
             st == IF IsZst(fat.vtable) THEN ZstState ELSE m.cells[fat.data]
             r == IterNext(fat.vtable, st)
             m2 == IF IsZst(fat.vtable) THEN m ELSE [m EXCEPT !.cells[fat.data] = r.st]
         IN  IF r.opt.some THEN {OnSome(m2, s, r.opt.val)} ELSE {OnNone(m, s, p, fat)}
    ELSE OnDangling(m, s, p)

(***************************************************************************)
(* The state machine                                                       *)
(***************************************************************************)
Init ==
    /\ pc = "start"
    /\ cs = UninitCs
    /\ mem = EmptyMem
    /\ slot0 \in Values
    /\ slot = slot0
    /\ src = [kind |-> "none", state |-> ZstState]
    /\ rets = <<>>
    /\ outs = <<>>
    /\ dropped = <<>>
    /\ seqDrops = 0
    /\ uaf = 0
    /\ stale = 0

(* The iterators an embedder may hand to form *)
Iterators ==
    {[kind |-> "finite", state |-> [items |-> s, pos |-> 0]] : s \in SeqsUpTo(Values, MaxLen)}
    \cup {[kind |-> "cycle", state |-> [items |-> s, pos |-> 0]]
            : s \in SeqsUpTo(Values, MaxCycle) \ {<<>>}}
    \cup {[kind |-> k, state |-> ZstState] : k \in ZstKinds}

(* an embedder's entry point that wraps some iterator with form *)
FormCall ==
    \E iter \in Iterators :
        /\ pc = "start"
        /\ pc' = "polling"
        /\ cs' = Form(mem, iter).cs
        /\ mem' = Form(mem, iter).mem
        /\ src' = iter
        /\ UNCHANGED <<slot, slot0, rets, outs, dropped, seqDrops, uaf, stale>>

(* the iterator get_iterator builds: (0..40).map(|x| (0..x).collect()) *)
ExampleIterator == [kind |-> "map_range", state |-> [start |-> 0, end |-> RangeEnd]]

(* get_iterator(cs): the record is overwritten; it has no drop glue *)
GetIterator ==
    /\ pc = "start"
    /\ pc' = "polling"
    /\ cs' = Form(mem, ExampleIterator).cs
    /\ mem' = Form(mem, ExampleIterator).mem
    /\ src' = ExampleIterator
    /\ UNCHANGED <<slot, slot0, rets, outs, dropped, seqDrops, uaf, stale>>

(* one call of cs.internal_iter(cs.pointer, &slot) and its effects *)
Invoke ==
    \E o \in IterImplFfi(mem, slot, cs.pointer) :
        /\ mem' = o.mem
        /\ slot' = o.slot
        /\ dropped' = dropped \o o.dropped
        /\ seqDrops' = seqDrops + o.seqDrops
        /\ uaf' = uaf + o.uaf
        /\ rets' = IF o.crashed THEN rets ELSE Append(rets, o.ret)
        /\ outs' = IF ~o.crashed /\ o.ret THEN Append(outs, o.slot) ELSE outs
        /\ pc' = IF o.crashed THEN "crashed" ELSE IF o.ret THEN "polling" ELSE "done"
        /\ UNCHANGED <<cs, slot0, src>>

(* the caller polls a handle that has not yet returned false *)
Call ==
    /\ pc = "polling"
    /\ \A k \in 1..Len(rets) : rets[k]
    /\ Len(rets) < MaxCalls
    /\ Invoke
    /\ UNCHANGED stale

(* the caller stops polling before exhaustion *)
Abandon ==
    /\ pc = "polling"
    /\ pc' = "abandoned"
    /\ UNCHANGED <<cs, mem, slot, slot0, src, rets, outs, dropped, seqDrops, uaf, stale>>

(* out of contract: the caller calls again after a false *)
StaleCall ==
    /\ pc \in {"done", "polling"}
    /\ \E k \in 1..Len(rets) : ~rets[k]
    /\ stale < MaxStale
    /\ Invoke
    /\ stale' = stale + 1

Next == FormCall \/ GetIterator \/ Call \/ Abandon

Spec == Init /\ [][Next]_vars

NextMisuse == FormCall \/ GetIterator \/ Call \/ Abandon \/ StaleCall

SpecMisuse == Init /\ [][NextMisuse]_vars

(***************************************************************************)
(* Properties                                                              *)
(***************************************************************************)
Formed == pc # "start"

Exhausted == \E k \in 1..Len(rets) : ~rets[k]

CountFalse == Cardinality({k \in 1..Len(rets) : ~rets[k]})

CountTrue == Cardinality({k \in 1..Len(rets) : rets[k]})

(* C1: for a finite iterator of N elements, the first N calls return true, *)
(* the k-th leaves the k-th element in the slot, the collected outputs are *)
(* the iterator's own elements in order, and call N+1 returns false.       *)
C1_RoundTrip ==
    (Formed /\ src.kind \in FiniteKinds) =>
        LET D == DirectIterate(src.kind, src.state)
            N == Len(D)
        IN  /\ Len(rets) <= N + 1
            /\ \A k \in 1..Len(rets) : rets[k] = (k <= N)
            /\ Len(outs) = CountTrue
            /\ outs = SubSeq(D, 1, Len(outs))
            /\ (Len(rets) \in 1..N => slot = D[Len(rets)])
            /\ (pc = "done" => outs = D /\ Len(rets) = N + 1)

C1_Witness ==
    /\ pc = "done"
    /\ src.kind = "finite"
    /\ Len(outs) = 3
    /\ outs[1] # outs[2]
    /\ outs[2] # outs[3]

(* C2: for a caller that stops at the first false, the iterator is         *)
(* destroyed as many times as false was returned, which is 0 before that   *)
(* call returns and 1 after it, never 2.                                   *)
C2_DeallocatedOnce ==
    /\ seqDrops = CountFalse
    /\ seqDrops <= 1
    /\ (seqDrops = 1) = (pc = "done")
    /\ (seqDrops = 1 => ~Live(mem, cs.pointer))

C2_Witness == pc = "done" /\ seqDrops = 1 /\ Len(outs) >= 2

(* C3: as long as no call has returned false, the boxed iterator the       *)
(* handle points to is allocated, whether the caller is still polling or   *)
(* has stopped for good.                                                   *)
C3_LiveUntilExhaustion ==
    (Formed /\ ~Exhausted) =>
        /\ Live(mem, cs.pointer)
        /\ mem.cells[cs.pointer].vtable = src.kind
        /\ (~IsZst(src.kind) => Live(mem, mem.cells[cs.pointer].data))
        /\ seqDrops = 0
        /\ mem.frees = 0

C3_Witness ==
    /\ pc = "abandoned"
    /\ Len(outs) >= 2
    /\ Live(mem, cs.pointer)
    /\ Live(mem, mem.cells[cs.pointer].data)

(* C4: for an iterator that always yields, every call returns true and the *)
(* iterator is never destroyed.                                            *)
C4_InfiniteNeverFalse ==
    (Formed /\ src.kind \in InfiniteKinds) =>
        /\ \A k \in 1..Len(rets) : rets[k]
        /\ pc # "done"
        /\ seqDrops = 0
        /\ mem.frees = 0
        /\ Live(mem, cs.pointer)

C4_Witness == src.kind = "cycle" /\ Len(rets) = MaxCalls /\ outs[1] # outs[2]

(* C5: a call that returns false leaves the slot as it was before the call *)
(* (the last element produced, or the caller's initial value if none).     *)
C5_FalseLeavesSlot ==
    [][(Len(rets') = Len(rets) + 1 /\ ~rets'[Len(rets')]) =>
            /\ slot' = slot
            /\ slot' = (IF outs = <<>> THEN slot0 ELSE outs[Len(outs)])]_vars

C5_Witness == pc = "done" /\ outs # <<>> /\ slot = outs[Len(outs)] /\ slot # slot0

(* C6: for get_iterator's handle, the i-th output (from 0) is the sequence *)
(* 0, 1, ..., i-1, and exactly 40 elements are produced.                   *)
C6_ExampleElements ==
    src.kind = "map_range" =>
        /\ \A i \in 1..Len(outs) :
              /\ Len(outs[i]) = i - 1
              /\ \A j \in 1..(i - 1) : outs[i][j] = j - 1
        /\ Len(outs) <= 40
        /\ (pc = "done" => Len(outs) = 40)

C6_Witness == src.kind = "map_range" /\ pc = "done" /\ Len(outs) = 40 /\ Len(slot) = 39

(* C7 as stated: for get_iterator's handle the 40th call returns false.    *)
C7_FortiethCallFalse ==
    (src.kind = "map_range" /\ Len(rets) >= 40) => ~rets[40]

(* C7 amended: for get_iterator's handle the 40th call returns true and    *)
(* the 41st call is the one that returns false.                            *)
C7_FortyFirstCallFalse ==
    src.kind = "map_range" =>
        /\ (Len(rets) >= 40 => rets[40])
        /\ (Len(rets) >= 41 => ~rets[41])
        /\ (pc = "done" => Len(rets) = 41)

C7_Witness == src.kind = "map_range" /\ Len(rets) = 41 /\ pc = "done"

(* C8: after a false the record still holds the address form stored, which *)
(* is now freed; a further call is carried out on the freed memory, and    *)
(* destroys the iterator a second time if it returns false again.          *)
C8_StaleHandle ==
    [][/\ Exhausted' =>
            /\ cs'.internal_iter = "iter_impl_ffi"
            /\ cs'.pointer = mem'.allocs
            /\ ~Live(mem', cs'.pointer)
       /\ stale' = stale + 1 =>
            /\ cs' = cs
            /\ uaf' = uaf + 1
            /\ (pc' # "crashed" =>
                    /\ Len(rets') = Len(rets) + 1
                    /\ (~rets'[Len(rets')] =>
                            /\ seqDrops' = seqDrops + 1
                            /\ mem'.frees > mem.frees))]_vars

C8_Witness == stale = 2 /\ seqDrops = 3 /\ uaf = 2 /\ mem.frees > mem.allocs

(* C9 as stated: form makes exactly one allocation, live until exhaustion. *)
C9_OneAllocation ==
    Formed =>
        /\ mem.allocs = 1
        /\ (~Exhausted => Cardinality(DOMAIN mem.cells) = 1)

(* C9 amended: form makes two allocations for an iterator of non-zero size *)
(* (its own box and the box of the fat pointer) and one for a zero-sized   *)
(* iterator; all are live until the call that returns false frees them all.*)
C9_AllocationsPerHandle ==
    Formed =>
        /\ mem.allocs = (IF IsZst(src.kind) THEN 1 ELSE 2)
        /\ (~Exhausted => Cardinality(DOMAIN mem.cells) = mem.allocs /\ mem.frees = 0)
        /\ (Exhausted => DOMAIN mem.cells = {} /\ mem.frees = mem.allocs)

C9_Witness == pc = "polling" /\ mem.allocs = 2 /\ Len(outs) >= 1 /\ mem.frees = 0

(* C10: each call that returns true destroys what the slot held, so the    *)
(* values destroyed are the caller's initial value followed by every       *)
(* output but the last, and the last output is the one left in the slot.   *)
C10_OldValueDropped ==
    /\ dropped = (IF outs = <<>> THEN <<>>
                  ELSE <<slot0>> \o SubSeq(outs, 1, Len(outs) - 1))
    /\ (outs # <<>> => slot = outs[Len(outs)])

C10_Witness ==
    /\ Len(dropped) = 3
    /\ dropped[1] = slot0
    /\ dropped[2] # dropped[3]
    /\ dropped[1] # dropped[2]

====
